---- MODULE Spec2Model ----
(***************************************************************************)
(* uMail SMTP client: the session state machine of src/umailesp.py, and    *)
(* for src/umailesp32.py its cmd, its constructor and the login it calls.  *)
(* Bytes on the wire are sequences of one-character strings; a line as     *)
(* readline returns it ends with CR LF, and the empty sequence is the      *)
(* empty read (peer closed, nothing to read).                              *)
(***************************************************************************)
EXTENDS Integers, Sequences, FiniteSets, TLC

VARIABLES
    pc,         \* position of the caller / of the running method
    sock,       \* self._sock: "plain" (the TCP socket) or "secured" (the wrapper)
    username,   \* self.username
    inbuf,      \* lines the server has sent that the client has not read yet
    code,       \* local `code` of the running method (last status parsed)
    resp,       \* local `resp` of the running method (last reply lines)
    sent,       \* what the running operation has written to the stream, in order
    io,         \* stream calls made by the last step, each with the stream object used
    closed,     \* number of close() calls made on the stream
    err,        \* the exception the last operation raised (kind "none" if none)
    ret,        \* the value the last operation returned
    call,       \* arguments and loop position of the running operation
    log,        \* what the running operation printed about failures, and its backoff sleeps
    ops,        \* number of operations the caller has started on the session
    authed,     \* history: the usernames whose login on this session has succeeded
    p_in,       \* parser harness: the raw reply handed to cmd
    p_out       \* parser harness: what cmd made of it

vars == <<pc, sock, username, inbuf, code, resp, sent, io, closed, err, ret,
          call, log, ops, authed, p_in, p_out>>

sessionVars == <<pc, sock, username, inbuf, code, resp, sent, io, closed, err,
                 ret, call, log, ops, authed>>

parserVars == <<p_in, p_out>>

None == "None"
NoCode == 0            \* `code = None`: no status parsed yet
ValueError == -1000    \* outside the range of any three-character number

-----------------------------------------------------------------------------
(* Characters and strings                                                  *)

Digits == {"0", "1", "2", "3", "4", "5", "6", "7", "8", "9"}

DigitVal(c) ==
    CASE c = "0" -> 0 [] c = "1" -> 1 [] c = "2" -> 2 [] c = "3" -> 3
      [] c = "4" -> 4 [] c = "5" -> 5 [] c = "6" -> 6 [] c = "7" -> 7
      [] c = "8" -> 8 [] c = "9" -> 9

Take(s, n) == SubSeq(s, 1, IF n < Len(s) THEN n ELSE Len(s))
Drop(s, n) == SubSeq(s, n + 1, Len(s))

RECURSIVE LStrip(_, _)
LStrip(s, chars) ==
    IF s # <<>> /\ Head(s) \in chars THEN LStrip(Tail(s), chars) ELSE s

RECURSIVE RStrip(_, _)
RStrip(s, chars) ==
    IF s # <<>> /\ s[Len(s)] \in chars THEN RStrip(SubSeq(s, 1, Len(s) - 1), chars)
    ELSE s

Strip(s, chars) == RStrip(LStrip(s, chars), chars)

Whitespace == {" ", "\t", "\r", "\n"}

UpperChar(c) ==
    CASE c = "a" -> "A" [] c = "u" -> "U" [] c = "t" -> "T" [] c = "h" -> "H"
      [] c = "p" -> "P" [] c = "l" -> "L" [] c = "i" -> "I" [] c = "n" -> "N"
      [] c = "o" -> "O" [] c = "g" -> "G" [] c = "k" -> "K" [] c = "s" -> "S"
      [] c = "r" -> "R" [] c = "c" -> "C" [] c = "m" -> "M"
      [] OTHER -> c

Upper(s) == [i \in 1..Len(s) |-> UpperChar(s[i])]

\* str.split() with no argument: the maximal runs of non-whitespace characters
RECURSIVE Split(_)
Split(s) ==
    LET t == LStrip(s, Whitespace)
        n == IF \E i \in 1..Len(t) : t[i] \in Whitespace
             THEN (CHOOSE i \in 1..Len(t) :
                      /\ t[i] \in Whitespace
                      /\ \A j \in 1..(i - 1) : t[j] \notin Whitespace) - 1
             ELSE Len(t)
    IN  IF t = <<>> THEN <<>> ELSE <<Take(t, n)>> \o Split(Drop(t, n))

RECURSIVE DigitsVal(_, _)
DigitsVal(s, acc) ==
    IF s = <<>> THEN acc ELSE DigitsVal(Tail(s), 10 * acc + DigitVal(Head(s)))

\* int(str): surrounding whitespace is ignored, one optional sign, then digits only
PyInt(s) ==
    LET t    == Strip(s, Whitespace)
        neg  == t # <<>> /\ Head(t) = "-"
        body == IF t # <<>> /\ Head(t) \in {"+", "-"} THEN Tail(t) ELSE t
    IN  IF body = <<>> \/ \E i \in 1..Len(body) : body[i] \notin Digits
        THEN ValueError
        ELSE IF neg THEN 0 - DigitsVal(body, 0) ELSE DigitsVal(body, 0)

-----------------------------------------------------------------------------
(* Words and lines the server can send                                     *)

CRLF == <<"\r", "\n">>
wOK       == <<"o", "k">>
wSTARTTLS == <<"S", "T", "A", "R", "T", "T", "L", "S">>
wAUTH     == <<"A", "U", "T", "H">>
wPLAIN    == <<"P", "L", "A", "I", "N">>
wLOGIN    == <<"L", "O", "G", "I", "N">>
wCRAM     == <<"C", "R", "A", "M">>

LOCAL_DOMAIN == "127.0.0.1"
CMD_STARTTLS == wSTARTTLS
CMD_AUTH     == wAUTH
AUTH_PLAIN   == wPLAIN
AUTH_LOGIN   == wLOGIN

c220 == <<"2", "2", "0">>
c235 == <<"2", "3", "5">>
c250 == <<"2", "5", "0">>
c251 == <<"2", "5", "1">>
c334 == <<"3", "3", "4">>
c354 == <<"3", "5", "4">>
c503 == <<"5", "0", "3">>
c550 == <<"5", "5", "0">>

\* one protocol line: code, separator, text, CR LF
Ln(c, sep, text) == c \o <<sep>> \o text \o CRLF

\* EHLO feature texts
fAuthPlainLogin == wAUTH \o <<" ">> \o wPLAIN \o <<" ">> \o wLOGIN
fAuthLogin      == wAUTH \o <<" ">> \o wLOGIN
fAuthEqLower    == <<"a", "u", "t", "h", "=">> \o <<"l", "o", "g", "i", "n">>
                     \o <<" ">> \o <<"p", "l", "a", "i", "n">>
fAuthCram       == wAUTH \o <<" ">> \o wCRAM
fAuthBare       == wAUTH

-----------------------------------------------------------------------------
(* cmd: the reply loop                                                     *)

\* rstrip('\r\n') of one line
LineStr(line) == RStrip(line, {"\r", "\n"})

\* line_str[3:].lstrip('- ')
TextAfterCode(line_str) == LStrip(Drop(line_str, 3), {"-", " "})

\* a mutation of the exit test: the loop stops after the first line
IsLastLineAlways(line_str) == TRUE

\* the loop's exit test: this line is the last one of the reply
IsLastLine(line_str) == Len(line_str) < 4 \/ line_str[4] # "-"

\* The while loop of cmd over the unread lines `buf`: what it returns or raises,
\* the lines it leaves unread and the number of readline calls it made.
RECURSIVE CmdLoop(_, _, _)
CmdLoop(buf, all_lines, n) ==
    IF buf = <<>>
    THEN [err |-> "NoResponse", code |-> NoCode, lines |-> all_lines,
          rest |-> <<>>, nread |-> n + 1]
    ELSE LET line_str == LineStr(Head(buf)) IN
         IF Len(line_str) < 3
         THEN [err |-> "InvalidLine", code |-> NoCode, lines |-> all_lines,
               rest |-> Tail(buf), nread |-> n + 1]
         ELSE LET c == PyInt(Take(line_str, 3)) IN
              IF c = ValueError
              THEN [err |-> "InvalidCode", code |-> NoCode, lines |-> all_lines,
                    rest |-> Tail(buf), nread |-> n + 1]
              ELSE LET al == Append(all_lines, TextAfterCode(line_str)) IN
                   IF IsLastLine(line_str)
                   THEN [err |-> "none", code |-> c, lines |-> al,
                         rest |-> Tail(buf), nread |-> n + 1]
                   ELSE CmdLoop(Tail(buf), al, n + 1)

cmd(buf) == CmdLoop(buf, <<>>, 0)

\* the parser harness before cmd has run
Unparsed == [err |-> "unparsed", code |-> NoCode, lines |-> <<>>, rest |-> <<>>,
             nread |-> 0]
-----------------------------------------------------------------------------
(* The server: what it may send                                            *)

badShort == <<"a", "b">> \o CRLF                \* fewer than three characters
badCode  == <<"a", "b", "c", " ">> \o wOK \o CRLF   \* no status code

\* the connection greeting, as the lines waiting to be read after connect
Greetings ==
    { <<Ln(c220, " ", wOK)>>,
      <<Ln(c220, "-", wOK), Ln(c220, " ", wOK)>>,
      <<Ln(c550, " ", wOK)>>,
      <<badCode>>,
      <<>> }

EhloFeatures ==
    {wOK, wSTARTTLS, fAuthPlainLogin, fAuthLogin, fAuthEqLower, fAuthCram, fAuthBare}

\* replies to EHLO: feature lists, a refusal, a malformed line, silence
EhloReplies ==
    { <<Ln(c250, " ", f)>> : f \in EhloFeatures }
    \cup { <<Ln(c250, "-", wSTARTTLS), Ln(c250, " ", f)>> :
              f \in {wOK, fAuthPlainLogin, fAuthLogin, fAuthCram} }
    \cup { <<Ln(c250, "-", fAuthPlainLogin), Ln(c250, " ", wSTARTTLS)>>,
           <<Ln(c250, "-", fAuthPlainLogin), Ln(c250, " ", fAuthEqLower)>>,
           <<Ln(c250, "-", wOK), Ln(c250, " ", fAuthLogin)>>,
           <<Ln(c550, " ", wOK)>>,
           <<badCode>>,
           <<>> }

c221 == <<"2", "2", "1">>

\* the statuses that make a difference to the command that reads them; every
\* other status takes the same branch as the refusal 550
Expected(command) ==
    CASE command = "STARTTLS" -> {c220}
      [] command = "AUTH"     -> {c235, c503, c334}
      [] command = "MAIL"     -> {c250}
      [] command = "RCPT"     -> {c250, c251}
      [] command = "DATA"     -> {c354}
      [] command = "SEND"     -> {c250}
      [] command = "QUIT"     -> {c221}

\* the commands whose replies are also tried in two lines (the envelope
\* commands only look at the status)
TwoLineReplies(command) ==
    IF command \in {"MAIL", "RCPT"} THEN {} ELSE Expected(command)

\* replies to every other command: a status, a two-line status, a malformed
\* line, silence
StatusReplies(command) ==
    { <<Ln(c, " ", wOK)>> : c \in Expected(command) \cup {c550} }
    \cup { <<Ln(c, "-", wOK), Ln(c, " ", wOK)>> : c \in TwoLineReplies(command) }
    \cup { <<badShort>>, <<>> }

ServerReplies(command) ==
    IF command = "EHLO" THEN EhloReplies ELSE StatusReplies(command)

-----------------------------------------------------------------------------
(* The caller: arguments it may pass                                       *)

Users     == {"alice"}
Passwords == {"pw"}

NoReply == [has |-> FALSE, code |-> NoCode, resp |-> <<>>]
Reply(c, r) == [has |-> TRUE, code |-> c, resp |-> r]

NoError == [kind |-> "none", info |-> <<>>]
Error(kind) == [kind |-> kind, info |-> <<>>]

MaxOps == 2
MaxRetries == 2

Idle ==
    [op |-> "none", use_ssl |-> FALSE, user |-> None, pass |-> None,
     addrs |-> <<>>, is_str |-> FALSE, mail_from |-> None, retries |-> 0,
     from_default |-> FALSE, attempt |-> 0, i |-> 0, count |-> 0,
     content |-> "", mime |-> FALSE]

-----------------------------------------------------------------------------
(* Stream calls                                                            *)

Written(command, arg) == [cmd |-> command, arg |-> arg, stream |-> sock]

IoWrite == [op |-> "write", stream |-> sock]
IoRead  == [op |-> "readline", stream |-> sock]

\* the stream calls of one cmd(): one write, then one readline per loop turn
CmdIo(res) == <<IoWrite>> \o [k \in 1..res.nread |-> IoRead]

\* what one cmd() leaves behind whatever it returns or raises
CmdEffects(command, arg, res) ==
    /\ inbuf' = res.rest
    /\ sent' = Append(sent, Written(command, arg))
    /\ code' = IF res.err = "none" THEN res.code ELSE code
    /\ resp' = IF res.err = "none" THEN res.lines ELSE resp

\* `x in resp` on a list of strings
InList(x, list) == \E k \in 1..Len(list) : list[k] = x
-----------------------------------------------------------------------------
(* SMTP.__init__                                                           *)

\* The state after connect() and, with use_ssl, after the direct wrap_socket:
\* the greeting is the first thing waiting on the stream.
Init ==
    \E us \in BOOLEAN, u \in Users \cup {None}, p \in Passwords \cup {None},
       g \in Greetings :
        /\ pc = "greeting"
        /\ sock = IF us THEN "secured" ELSE "plain"
        /\ username = u
        /\ inbuf = g
        /\ code = NoCode
        /\ resp = <<>>
        /\ sent = <<>>
        /\ io = IF us THEN <<[op |-> "wrap", stream |-> "plain"]>> ELSE <<>>
        /\ closed = 0
        /\ err = NoError
        /\ ret = NoReply
        /\ call = [Idle EXCEPT !.op = "init", !.use_ssl = us, !.user = u, !.pass = p]
        /\ log = <<>>
        /\ ops = 0
        /\ authed = {}
        /\ p_in = <<>>
        /\ p_out = Unparsed

\* a mutation: the exception is swallowed and the object handed out
InitRaiseSwallowed(kind) ==
    /\ pc' = "returned"
    /\ err' = Error(kind)
    /\ UNCHANGED <<username, call>>

\* an exception leaves __init__: no object is produced
InitRaise(kind) ==
    /\ pc' = "failed"
    /\ err' = Error(kind)
    /\ UNCHANGED <<username, call>>

\* `if username and password: self.login(username, password)`, else return
InitLoginOrReturn ==
    IF call.user # None /\ call.pass # None
    THEN /\ pc' = "login_ehlo"
         /\ username' = call.user
         /\ UNCHANGED <<err, call>>
    ELSE /\ pc' = "returned"
         /\ UNCHANGED <<err, username, call>>

\* a mutation: the server's STARTTLS offer is never taken up
WantsStartTlsNever(use_ssl_arg, features) == FALSE

\* `not use_ssl and CMD_STARTTLS in resp`
WantsStartTls(use_ssl_arg, features) == ~use_ssl_arg /\ InList(CMD_STARTTLS, features)

\* readline of the greeting and its check
InitGreeting ==
    /\ pc = "greeting"
    /\ LET greeting     == IF inbuf = <<>> THEN <<>> ELSE Head(inbuf)
           greeting_str == LineStr(greeting)
           c            == PyInt(Take(greeting_str, 3))
       IN  /\ inbuf' = IF inbuf = <<>> THEN <<>> ELSE Tail(inbuf)
           /\ io' = <<IoRead>>
           /\ IF greeting = <<>>
              THEN InitRaise("NoGreeting") /\ UNCHANGED <<code, resp>>
              ELSE IF c = ValueError
              THEN InitRaise("ValueError") /\ UNCHANGED <<code, resp>>
              ELSE /\ code' = c
                   /\ resp' = <<Drop(greeting_str, 4)>>
                   /\ IF c # 220
                      THEN InitRaise("ConnectFailed")
                      ELSE pc' = "ehlo1" /\ UNCHANGED <<err, username, call>>
    /\ UNCHANGED <<sock, sent, closed, ret, log, ops, authed, parserVars>>

\* the first EHLO, then the STARTTLS decision
InitEhlo ==
    /\ pc = "ehlo1"
    /\ \E r \in ServerReplies("EHLO") :
        \E res \in {cmd(inbuf \o r)} :
        /\ CmdEffects("EHLO", <<LOCAL_DOMAIN>>, res)
        /\ io' = CmdIo(res)
        /\ IF res.err # "none" THEN InitRaise(res.err)
           ELSE IF res.code # 250 THEN InitRaise("EhloFailed")
           ELSE IF WantsStartTls(call.use_ssl, res.lines)
           THEN pc' = "starttls" /\ UNCHANGED <<err, username, call>>
           ELSE InitLoginOrReturn
    /\ UNCHANGED <<sock, closed, ret, log, ops, authed, parserVars>>

\* a mutation: the wrapped stream is dropped and self._sock stays what it was
WrappedSockDropped(plain_sock, wrapped_sock) == plain_sock

\* self._sock after a successful wrap_socket
WrappedSock(plain_sock, wrapped_sock) == wrapped_sock

\* STARTTLS, then wrap_socket on the stream, which may fail
InitStartTls ==
    /\ pc = "starttls"
    /\ \E r \in ServerReplies("STARTTLS"), wrap_ok \in BOOLEAN :
        \E res \in {cmd(inbuf \o r)} :
        /\ CmdEffects("STARTTLS", <<>>, res)
        /\ IF res.err # "none"
           THEN InitRaise(res.err) /\ io' = CmdIo(res) /\ UNCHANGED sock
           ELSE IF res.code # 220
           THEN InitRaise("StartTlsFailed") /\ io' = CmdIo(res) /\ UNCHANGED sock
           ELSE /\ io' = CmdIo(res) \o <<[op |-> "wrap", stream |-> sock]>>
                /\ IF wrap_ok
                   THEN /\ sock' = WrappedSock(sock, "secured")
                        /\ pc' = "ehlo2"
                        /\ UNCHANGED <<err, username, call>>
                   ELSE InitRaise("WrapFailed") /\ UNCHANGED sock
    /\ UNCHANGED <<closed, ret, log, ops, authed, parserVars>>

\* EHLO again on the wrapped stream
InitEhlo2 ==
    /\ pc = "ehlo2"
    /\ \E r \in ServerReplies("EHLO") :
        \E res \in {cmd(inbuf \o r)} :
        /\ CmdEffects("EHLO", <<LOCAL_DOMAIN>>, res)
        /\ io' = CmdIo(res)
        /\ IF res.err # "none" THEN InitRaise(res.err)
           ELSE IF res.code # 250 THEN InitRaise("EhloAfterStartTlsFailed")
           ELSE InitLoginOrReturn
    /\ UNCHANGED <<sock, closed, ret, log, ops, authed, parserVars>>
-----------------------------------------------------------------------------
(* SMTP.login                                                              *)

\* the loop over the features: the last feature starting with AUTH decides;
\* the empty list stands for None as well (both fail `if not auths`)
RECURSIVE AuthsOf(_, _)
AuthsOf(features, auths) ==
    IF features = <<>> THEN auths
    ELSE LET feature == Head(features) IN
         AuthsOf(Tail(features),
                 IF Upper(Take(feature, 4)) = CMD_AUTH
                 THEN Split(Upper(Strip(Drop(feature, 4), {"="})))
                 ELSE auths)

\* a mutation: LOGIN is preferred to PLAIN
ChooseAuthLoginFirst(auths) ==
    IF InList(AUTH_LOGIN, auths) THEN "LOGIN"
    ELSE IF InList(AUTH_PLAIN, auths) THEN "PLAIN"
    ELSE "unsupported"

\* the mechanism login goes for: PLAIN before LOGIN
ChooseAuth(auths) ==
    IF InList(AUTH_PLAIN, auths) THEN "PLAIN"
    ELSE IF InList(AUTH_LOGIN, auths) THEN "LOGIN"
    ELSE "unsupported"

\* a mutation: 503 (already authenticated) is not accepted
AuthAcceptedOnly235(c) == c = 235

\* `code not in (235, 503)`
AuthAccepted(c) == c \in {235, 503}

\* a mutation: the interim status is not looked at
PromptedAny(c) == TRUE

\* `if code != 334: raise`: the server asks for the next credential
Prompted(c) == c = 334

\* base64 of a value: an opaque encoding of exactly that value
B64(x) == <<"b64">> \o x

\* an exception leaves login (and __init__, when __init__ called it)
LoginRaise(kind, info) ==
    /\ pc' = IF call.op = "init" THEN "failed" ELSE "returned"
    /\ err' = [kind |-> kind, info |-> info]
    /\ UNCHANGED ret

\* login returns (code, resp); __init__ drops the value and returns itself
LoginReturn(c, r) ==
    /\ pc' = "returned"
    /\ ret' = IF call.op = "init" THEN NoReply ELSE Reply(c, r)
    /\ UNCHANGED err

\* the final check of both mechanisms
LoginFinish(res) ==
    IF res.err # "none" THEN LoginRaise(res.err, <<>>) /\ UNCHANGED authed
    ELSE IF ~AuthAccepted(res.code)
    THEN LoginRaise("AuthFailed", <<>>) /\ UNCHANGED authed
    ELSE LoginReturn(res.code, res.lines) /\ authed' = authed \cup {call.user}

\* a mutation: a feature list kept from the bootstrap is used when there is one
LoginFeaturesKept(fresh, kept) == IF kept # <<>> THEN kept ELSE fresh

\* `for feature in resp`: resp is what the EHLO of this login call returned,
\* not what the method's caller read before
LoginFeatures(fresh, kept) == fresh

\* the caller invokes login(username, password)
CallLogin ==
    /\ pc = "ready"
    /\ ops < MaxOps
    /\ \E u \in Users, p \in Passwords :
        /\ call' = [Idle EXCEPT !.op = "login", !.user = u, !.pass = p]
        /\ username' = u
    /\ pc' = "login_ehlo"
    /\ ops' = ops + 1
    /\ UNCHANGED <<sock, inbuf, code, resp, sent, io, closed, err, ret, log, authed,
                   parserVars>>

\* EHLO, the scan for AUTH and the choice of the mechanism
LoginEhlo ==
    /\ pc = "login_ehlo"
    /\ \E r \in ServerReplies("EHLO") :
        \E res \in {cmd(inbuf \o r)} :
        LET auths == AuthsOf(LoginFeatures(res.lines, resp), <<>>) IN
        /\ CmdEffects("EHLO", <<LOCAL_DOMAIN>>, res)
        /\ io' = CmdIo(res)
        /\ IF res.err # "none" THEN LoginRaise(res.err, <<>>)
           ELSE IF res.code # 250 THEN LoginRaise("EhloFailed", <<>>)
           ELSE IF auths = <<>> THEN LoginRaise("NoAuthMethods", <<>>)
           ELSE IF ChooseAuth(auths) = "PLAIN"
           THEN pc' = "auth_plain" /\ UNCHANGED <<err, ret>>
           ELSE IF ChooseAuth(auths) = "LOGIN"
           THEN pc' = "auth_login" /\ UNCHANGED <<err, ret>>
           ELSE LoginRaise("AuthNotSupported", auths)
    /\ UNCHANGED <<sock, username, closed, call, log, ops, authed, parserVars>>

\* AUTH PLAIN with the credentials, and the final check
LoginPlain ==
    /\ pc = "auth_plain"
    /\ \E r \in ServerReplies("AUTH") :
        \E res \in {cmd(inbuf \o r)} :
        /\ CmdEffects("AUTH PLAIN", B64(<<"\\0", call.user, "\\0", call.pass>>), res)
        /\ io' = CmdIo(res)
        /\ LoginFinish(res)
    /\ UNCHANGED <<sock, username, closed, call, log, ops, parserVars>>

\* AUTH LOGIN: the username prompt
LoginAuthLogin ==
    /\ pc = "auth_login"
    /\ \E r \in ServerReplies("AUTH") :
        \E res \in {cmd(inbuf \o r)} :
        /\ CmdEffects("AUTH LOGIN", <<>>, res)
        /\ io' = CmdIo(res)
        /\ IF res.err # "none" THEN LoginRaise(res.err, <<>>)
           ELSE IF ~Prompted(res.code) THEN LoginRaise("UsernamePromptFailed", <<>>)
           ELSE pc' = "login_user" /\ UNCHANGED <<err, ret>>
    /\ UNCHANGED <<sock, username, closed, call, log, ops, authed, parserVars>>

\* the username, base64
LoginUser ==
    /\ pc = "login_user"
    /\ \E r \in ServerReplies("AUTH") :
        \E res \in {cmd(inbuf \o r)} :
        /\ CmdEffects("USERNAME", B64(<<call.user>>), res)
        /\ io' = CmdIo(res)
        /\ IF res.err # "none" THEN LoginRaise(res.err, <<>>)
           ELSE IF ~Prompted(res.code) THEN LoginRaise("UsernameFailed", <<>>)
           ELSE pc' = "login_pass" /\ UNCHANGED <<err, ret>>
    /\ UNCHANGED <<sock, username, closed, call, log, ops, authed, parserVars>>

\* the password, base64, and the final check
LoginPass ==
    /\ pc = "login_pass"
    /\ \E r \in ServerReplies("AUTH") :
        \E res \in {cmd(inbuf \o r)} :
        /\ CmdEffects("PASSWORD", B64(<<call.pass>>), res)
        /\ io' = CmdIo(res)
        /\ LoginFinish(res)
    /\ UNCHANGED <<sock, username, closed, call, log, ops, parserVars>>
-----------------------------------------------------------------------------
(* SMTP.to                                                                 *)

\* the recipient arguments: a list of addresses or one address as a str
AddrArgs ==
    { [is_str |-> FALSE, v |-> <<>>],
      [is_str |-> FALSE, v |-> <<"rcpt1", "rcpt2">>],
      [is_str |-> TRUE,  v |-> <<"rcpt1">>] }

Senders == {None, "carol"}
Retries == -1..MaxRetries

\* `mail_from = self.username if mail_from is None else mail_from`
MailFrom(mail_from_arg, self_username) ==
    IF mail_from_arg = None THEN self_username ELSE mail_from_arg

\* `code not in (250, 251)`
RcptRefused(c) == c \notin {250, 251}

\* a mutation: one refused recipient is enough to give the attempt up
AllRefusedAny(count, n) == count > 0 \/ n = 0

\* `count == len(addrs)`
AllRefused(count, n) == count = n

\* a mutation: the last retry is never made
RetryAgainEarly(attempt, retries) == attempt < retries - 2

\* a mutation: one attempt more than retries
RetryAgainLate(attempt, retries) == attempt < retries

\* `attempt < retries - 1`: another attempt follows
RetryAgain(attempt, retries) == attempt < retries - 1

\* the except clause of the attempt: print, then sleep and go round again, or re-raise
ToRaise(kind, printed_before) ==
    IF RetryAgain(call.attempt, call.retries)
    THEN /\ log' = printed_before \o <<<<"attempt failed", kind>>, <<"sleep", "5">>>>
         /\ call' = [call EXCEPT !.attempt = call.attempt + 1, !.i = 0, !.count = 0]
         /\ pc' = "to_mail"
         /\ UNCHANGED <<err, ret>>
    ELSE /\ log' = Append(printed_before, <<"attempt failed", kind>>)
         /\ err' = Error(kind)
         /\ pc' = "returned"
         /\ UNCHANGED <<ret, call>>

\* the caller invokes to(addrs, mail_from, retries); with retries <= 0 the loop
\* body never runs and the method falls off its end
CallTo ==
    /\ pc = "ready"
    /\ ops < MaxOps
    /\ \E a \in AddrArgs, mf \in Senders, n \in Retries :
        /\ call' = [Idle EXCEPT !.op = "to", !.addrs = a.v, !.is_str = a.is_str,
                                !.mail_from = MailFrom(mf, username),
                                !.from_default = (mf = None), !.retries = n]
        /\ pc' = IF n > 0 THEN "to_mail" ELSE "returned"
    /\ ops' = ops + 1
    /\ UNCHANGED <<sock, username, inbuf, code, resp, sent, io, closed, err, ret, log,
                   authed, parserVars>>

\* MAIL FROM of one attempt
ToMail ==
    /\ pc = "to_mail"
    /\ \E r \in ServerReplies("MAIL") :
        \E res \in {cmd(inbuf \o r)} :
        /\ CmdEffects("MAIL FROM", <<call.mail_from>>, res)
        /\ io' = CmdIo(res)
        /\ IF res.err # "none" THEN ToRaise(res.err, log)
           ELSE IF res.code # 250 THEN ToRaise("SenderRefused", log)
           ELSE IF AllRefused(0, Len(call.addrs))
           THEN ToRaise("AllRecipientsRefused", log)
           ELSE /\ call' = [call EXCEPT !.is_str = FALSE, !.i = 1, !.count = 0]
                /\ pc' = "to_rcpt"
                /\ UNCHANGED <<err, ret, log>>
    /\ UNCHANGED <<sock, username, closed, ops, authed, parserVars>>

\* RCPT TO for the next address; after the last one, the count decides
ToRcpt ==
    /\ pc = "to_rcpt"
    /\ \E r \in ServerReplies("RCPT") :
        \E res \in {cmd(inbuf \o r)} :
        LET addr    == call.addrs[call.i]
            refused == res.err = "none" /\ RcptRefused(res.code)
            count   == IF refused THEN call.count + 1 ELSE call.count
            printed == IF refused THEN Append(log, <<"refused", addr>>) ELSE log
        IN
        /\ CmdEffects("RCPT TO", <<addr>>, res)
        /\ io' = CmdIo(res)
        /\ IF res.err # "none" THEN ToRaise(res.err, printed)
           ELSE IF call.i < Len(call.addrs)
           THEN /\ call' = [call EXCEPT !.i = call.i + 1, !.count = count]
                /\ log' = printed
                /\ UNCHANGED <<pc, err, ret>>
           ELSE IF AllRefused(count, Len(call.addrs))
           THEN ToRaise("AllRecipientsRefused", printed)
           ELSE /\ call' = [call EXCEPT !.count = count]
                /\ log' = printed
                /\ pc' = "to_data"
                /\ UNCHANGED <<err, ret>>
    /\ UNCHANGED <<sock, username, closed, ops, authed, parserVars>>

\* DATA, and the return of its reply
ToData ==
    /\ pc = "to_data"
    /\ \E r \in ServerReplies("DATA") :
        \E res \in {cmd(inbuf \o r)} :
        /\ CmdEffects("DATA", <<>>, res)
        /\ io' = CmdIo(res)
        /\ IF res.err # "none" THEN ToRaise(res.err, log)
           ELSE IF res.code # 354 THEN ToRaise("DataRefused", log)
           ELSE /\ ret' = Reply(res.code, res.lines)
                /\ pc' = "returned"
                /\ UNCHANGED <<err, call, log>>
    /\ UNCHANGED <<sock, username, closed, ops, authed, parserVars>>
-----------------------------------------------------------------------------
(* SMTP.write, SMTP.send, SMTP.quit                                        *)

Contents == {"", "Hello"}

MimeHeaders == "MIME-Version: 1.0\r\nContent-Type: text/plain; charset=UTF-8\r\n"
Terminator  == "\r\n.\r\n"

\* the caller invokes write(content)
Write ==
    /\ pc = "ready"
    /\ ops < MaxOps
    /\ \E content \in Contents :
        sent' = <<Written("write", <<content>>)>>
    /\ io' = <<IoWrite>>
    /\ ops' = ops + 1
    /\ call' = [Idle EXCEPT !.op = "write"]
    /\ pc' = "returned"
    /\ UNCHANGED <<sock, username, inbuf, code, resp, closed, err, ret, log, authed,
                   parserVars>>

\* what send writes, in order
SendWrites(content, mime) ==
    (IF mime THEN <<MimeHeaders, "\r\n">> ELSE <<>>)
    \o (IF content # "" THEN <<content>> ELSE <<>>)
    \o <<Terminator>>

\* the caller invokes send(content, mime): the writes, then one readline
Send ==
    /\ pc = "ready"
    /\ ops < MaxOps
    /\ \E content \in Contents, mime \in BOOLEAN, r \in ServerReplies("SEND") :
        LET writes == SendWrites(content, mime)
            buf    == inbuf \o r
            line   == IF buf = <<>> THEN <<>> ELSE Strip(Head(buf), Whitespace)
            c      == PyInt(Take(line, 3))
        IN
        /\ sent' = [k \in 1..Len(writes) |-> Written("write", <<writes[k]>>)]
        /\ io' = [k \in 1..Len(writes) |-> IoWrite]
                    \o <<[op |-> "readline", stream |-> sock,
                          line |-> IF buf = <<>> THEN <<>> ELSE Head(buf)]>>
        /\ inbuf' = IF buf = <<>> THEN <<>> ELSE Tail(buf)
        /\ IF line = <<>>
           THEN err' = Error("NoSendResponse") /\ ret' = NoReply
                /\ code' = NoCode /\ resp' = <<>>
           ELSE IF c = ValueError
           THEN err' = Error("ValueError") /\ ret' = NoReply
                /\ code' = NoCode /\ resp' = <<>>
           ELSE err' = NoError /\ ret' = Reply(c, Drop(line, 4))
                /\ code' = c /\ resp' = Drop(line, 4)
        /\ call' = [Idle EXCEPT !.op = "send", !.content = content, !.mime = mime]
    /\ ops' = ops + 1
    /\ pc' = "returned"
    /\ UNCHANGED <<sock, username, closed, log, authed, parserVars>>

\* a mutation: close() inside the try statement, after QUIT
QuitClosesIfOk(quit_err) == IF quit_err = "none" THEN 1 ELSE 0

\* number of close() calls quit makes on the stream, given how QUIT went:
\* close() comes after the try statement, whatever it caught
QuitCloses(quit_err) == 1

\* the caller invokes quit(): QUIT with every exception swallowed, then close
Quit ==
    /\ pc = "ready"
    /\ \E r \in ServerReplies("QUIT") :
        \E res \in {cmd(inbuf \o r)} :
        /\ inbuf' = res.rest
        /\ sent' = <<Written("QUIT", <<>>)>>
        /\ code' = NoCode /\ resp' = <<>>
        /\ io' = CmdIo(res) \o [k \in 1..QuitCloses(res.err) |-> [op |-> "close", stream |-> sock]]
        /\ log' = IF res.err # "none" THEN <<<<"QUIT failed", res.err>>>> ELSE <<>>
        /\ closed' = closed + QuitCloses(res.err)
    /\ call' = [Idle EXCEPT !.op = "quit"]
    /\ pc' = "closed"
    /\ UNCHANGED <<sock, username, err, ret, ops, authed, parserVars>>

-----------------------------------------------------------------------------
(* The session                                                             *)

\* The caller takes what the method returned or raised and goes on; the
\* method's locals are gone.
Return ==
    /\ pc = "returned"
    /\ pc' = "ready"
    /\ call' = Idle
    /\ code' = NoCode /\ resp' = <<>> /\ sent' = <<>> /\ io' = <<>> /\ log' = <<>>
    /\ err' = NoError /\ ret' = NoReply
    /\ UNCHANGED <<sock, username, inbuf, closed, ops, authed, parserVars>>

Next ==
    \/ InitGreeting
    \/ InitEhlo
    \/ InitStartTls
    \/ InitEhlo2
    \/ CallLogin
    \/ LoginEhlo
    \/ LoginPlain
    \/ LoginAuthLogin
    \/ LoginUser
    \/ LoginPass
    \/ CallTo
    \/ ToMail
    \/ ToRcpt
    \/ ToData
    \/ Write
    \/ Send
    \/ Quit
    \/ Return

Spec == Init /\ [][Next]_vars
-----------------------------------------------------------------------------
(* cmd on its own: one reply handed to the reply loop                      *)

ParseCodes == {c250, c550}
ParseTexts == {<<>>, wOK, <<" ">> \o wOK, <<"-">> \o wOK, wSTARTTLS}

\* three characters int() accepts that are no status code
ParseOddCodes ==
    { <<"0", "9", "9">>, <<"9", "9", "9">>, <<"+", "2", "5">>, <<"-", "2", "5">> }

ParseContLines  == { Ln(c, "-", t) : c \in ParseCodes, t \in ParseTexts }
ParseFinalLines ==
    { Ln(c, " ", t) : c \in ParseCodes, t \in ParseTexts }
    \cup { c \o CRLF : c \in ParseCodes }
    \cup { badShort, badCode, <<" ", "2", "5", " ">> \o wOK \o CRLF }
    \cup { Ln(c, " ", wOK) : c \in ParseOddCodes }

ParseReplies ==
    { <<f>> : f \in ParseFinalLines }
    \cup { <<c1, f>> : c1 \in ParseContLines, f \in ParseFinalLines }
    \cup { <<c1, c2, f>> : c1 \in ParseContLines, c2 \in ParseContLines,
                           f \in ParseFinalLines }

ParseInit ==
    /\ pc = "parse"
    /\ sock = "plain"
    /\ username = None
    /\ inbuf = <<>>
    /\ code = NoCode
    /\ resp = <<>>
    /\ sent = <<>>
    /\ io = <<>>
    /\ closed = 0
    /\ err = NoError
    /\ ret = NoReply
    /\ call = Idle
    /\ log = <<>>
    /\ ops = 0
    /\ authed = {}
    /\ p_in \in ParseReplies
    /\ p_out = Unparsed

\* cmd reads the reply
Parse ==
    /\ p_out = Unparsed
    /\ p_out' = cmd(p_in)
    /\ UNCHANGED <<p_in, sessionVars>>

ParseNext == Parse

SpecParse == ParseInit /\ [][ParseNext]_vars

-----------------------------------------------------------------------------
(* Properties of the reply loop                                            *)

IsSuffix(t, s) == Len(t) <= Len(s) /\ SubSeq(s, Len(s) - Len(t) + 1, Len(s)) = t

ThreeDigits(line) == Len(line) >= 3 /\ \A k \in 1..3 : line[k] \in Digits

\* a raw line "CCC-text"
IsContinuationLine(line) ==
    ThreeDigits(line) /\ Len(line) >= 4 /\ line[4] = "-"

\* a raw line "CCC text" or "CCC"
IsFinalLine(line) ==
    ThreeDigits(line) /\ (Len(LineStr(line)) = 3 \/ line[4] = " ")

\* N continuation lines followed by one final line
IsCompleteReply(reply) ==
    /\ reply # <<>>
    /\ \A k \in 1..(Len(reply) - 1) : IsContinuationLine(reply[k])
    /\ IsFinalLine(reply[Len(reply)])

\* C3: for a reply of N continuation lines and one final line, cmd returns
\* N+1 lines, the k-th of them the text of the k-th line that arrived, and the
\* status of the last line.
C3_MultiLineReply ==
    (p_out # Unparsed /\ IsCompleteReply(p_in)) =>
        /\ p_out.err = "none"
        /\ Len(p_out.lines) = Len(p_in)
        /\ \A k \in 1..Len(p_in) : IsSuffix(p_out.lines[k], LineStr(p_in[k]))
        /\ p_out.code = DigitsVal(Take(p_in[Len(p_in)], 3), 0)

\* two continuation lines with different texts and a final line whose status
\* differs from the first line's
C3_Witness ==
    /\ p_out # Unparsed
    /\ p_in = <<Ln(c550, "-", wSTARTTLS), Ln(c550, "-", wOK), Ln(c250, " ", <<>>)>>
    /\ p_out.code = 250
    /\ p_out.lines = <<wSTARTTLS, wOK, <<>>>>

\* C4 as stated: a single-line reply "CCC text" comes back as (CCC, [text]),
\* the text being everything after the one separator character.
C4_SingleLineReply ==
    (p_out # Unparsed /\ Len(p_in) = 1 /\ IsFinalLine(p_in[1])
        /\ Len(LineStr(p_in[1])) >= 4) =>
        /\ p_out.err = "none"
        /\ p_out.code = DigitsVal(Take(p_in[1], 3), 0)
        /\ p_out.lines = <<Drop(LineStr(p_in[1]), 4)>>
-----------------------------------------------------------------------------
(* Properties of the session                                               *)

Last(q) == q[Len(q)]
Cmds(q) == [k \in 1..Len(q) |-> q[k].cmd]

\* the exceptions cmd itself raises
CmdErrors == {"NoResponse", "InvalidLine", "InvalidCode"}

\* what carries the mechanism choice or the credentials
IsAuthWrite(e) == e.cmd \in {"AUTH PLAIN", "AUTH LOGIN", "USERNAME", "PASSWORD"}

AllOn(events, stream) == \A k \in 1..Len(events) : events[k].stream = stream

\* one more command was written by this step, and it is `command`
Wrote(command) ==
    /\ Len(sent') = Len(sent) + 1
    /\ SubSeq(sent', 1, Len(sent)) = sent
    /\ Last(sent').cmd = command

\* what this step appended to the record of writes
NewWrites ==
    IF Len(sent') > Len(sent) THEN SubSeq(sent', Len(sent) + 1, Len(sent')) ELSE <<>>

C1_Step ==
    /\ (pc = "ehlo1" /\ ~call.use_ssl /\ err'.kind \notin CmdErrors /\ code' = 250
            /\ InList(wSTARTTLS, resp'))
          => (pc' = "starttls" /\ Cmds(sent') = <<"EHLO">>)
    /\ pc = "starttls"
          => /\ Wrote("STARTTLS") /\ Last(sent').stream = "plain"
             /\ pc' \in {"ehlo2", "failed"}
             /\ pc' = "ehlo2" => (code' = 220 /\ sock = "plain" /\ sock' = "secured")
    /\ pc = "ehlo2"
          => /\ Wrote("EHLO") /\ Last(sent').stream = "secured"
             /\ pc' \in {"login_ehlo", "returned", "failed"}
             /\ pc' # "failed" => code' = 250
             /\ pc' = "login_ehlo" <=> (pc' # "failed" /\ call.user # None /\ call.pass # None)

C1_Order ==
    (call.op = "init" /\ ~call.use_ssl /\ InList("STARTTLS", Cmds(sent))) =>
        \A k \in 1..Len(sent) : IsAuthWrite(sent[k]) =>
            /\ sent[k].stream = "secured"
            /\ \E i \in 1..k, j \in 1..k :
                /\ i < j
                /\ sent[i].cmd = "STARTTLS"
                /\ sent[j].cmd = "EHLO" /\ sent[j].stream = "secured"

\* C1: in a bootstrap without direct security, a first EHLO reply 250 that lists
\* STARTTLS is followed by STARTTLS (220 required), the wrapped stream, EHLO again
\* (250 required) and only then, with both credentials given, the login; every
\* AUTH command and credential of such a run is written to the wrapped stream,
\* after STARTTLS and the second EHLO.
C1_StartTlsBeforeAuth == [][C1_Step]_vars /\ []C1_Order

\* the scenario: EHLO, STARTTLS, EHLO, login's EHLO, AUTH PLAIN, accepted
C1_Witness ==
    /\ pc = "returned" /\ call.op = "init" /\ ~call.use_ssl /\ err.kind = "none"
    /\ Cmds(sent) = <<"EHLO", "STARTTLS", "EHLO", "EHLO", "AUTH PLAIN">>
    /\ sent[1].stream = "plain" /\ sent[5].stream = "secured"

C2_Step ==
    /\ pc = "starttls" /\ pc' = "ehlo2" => sock' = "secured"
    /\ pc = "ehlo2" => AllOn(io', "secured")
    /\ (pc = "greeting" /\ call.use_ssl) => AllOn(io', "secured")
    /\ sock = "secured" => (sock' = "secured" /\ AllOn(io', "secured")
                            /\ AllOn(NewWrites, "secured"))

\* C2: from the step that replaced the stream by the wrapped one (after STARTTLS,
\* or at connect with direct security) every read, write and close of every
\* operation is made on the wrapped stream, and the stream stays the wrapped one.
C2_OnlySecuredAfterUpgrade == [][C2_Step]_vars

\* a bootstrap that upgraded by STARTTLS and then logged in over the wrapped stream
C2_Witness ==
    /\ pc = "returned" /\ call.op = "init" /\ ~call.use_ssl /\ sock = "secured"
    /\ Len(sent) >= 5 /\ io # <<>> /\ AllOn(io, "secured")
KnownMechs == {wPLAIN, wLOGIN, wCRAM}

\* feature `f` is an AUTH feature that lists mechanism `m` as one of its words
Advertises(f, m) ==
    LET u == Upper(f) IN
    /\ Take(u, 4) = wAUTH
    /\ \E i \in 5..Len(u) :
        /\ i + Len(m) - 1 <= Len(u)
        /\ SubSeq(u, i, i + Len(m) - 1) = m
        /\ u[i - 1] \in {" ", "="}
        /\ (i + Len(m) - 1 = Len(u) \/ u[i + Len(m)] = " ")

AdvertisedSet(features) ==
    { m \in KnownMechs : \E k \in 1..Len(features) : Advertises(features[k], m) }

Range(q) == { q[k] : k \in 1..Len(q) }

NoAuthWritten == \A k \in 1..Len(sent') : ~IsAuthWrite(sent'[k])

\* the EHLO of login was answered 250 in this step
LoginEhloAnswered == pc = "login_ehlo" /\ err'.kind \notin CmdErrors /\ code' = 250

LoginRaised(kind) ==
    /\ err'.kind = kind
    /\ pc' = IF call.op = "init" THEN "failed" ELSE "returned"

C5_Choice ==
    /\ LoginEhloAnswered =>
        /\ wPLAIN \in AdvertisedSet(resp') => pc' = "auth_plain"
        /\ pc' = "auth_login" <=>
              (wLOGIN \in AdvertisedSet(resp') /\ wPLAIN \notin AdvertisedSet(resp'))
    /\ pc = "auth_plain" => Wrote("AUTH PLAIN")
    /\ pc = "auth_login" => Wrote("AUTH LOGIN")
    /\ (Len(sent') > Len(sent) /\ IsAuthWrite(Last(sent'))
            /\ Last(sent').cmd # "AUTH PLAIN")
          => pc \in {"auth_login", "login_user", "login_pass"}

C5_Unsupported ==
    /\ LoginRaised("AuthNotSupported")
    /\ Range(err'.info) = AdvertisedSet(resp')
    /\ NoAuthWritten

C5_OriginalStep ==
    /\ C5_Choice
    /\ (LoginEhloAnswered /\ wPLAIN \notin AdvertisedSet(resp')
            /\ wLOGIN \notin AdvertisedSet(resp')) => C5_Unsupported

C5_AmendedStep ==
    /\ C5_Choice
    /\ (LoginEhloAnswered /\ AdvertisedSet(resp') # {}
            /\ wPLAIN \notin AdvertisedSet(resp')
            /\ wLOGIN \notin AdvertisedSet(resp')) => C5_Unsupported
    /\ (LoginEhloAnswered /\ AdvertisedSet(resp') = {})
          => (LoginRaised("NoAuthMethods") /\ NoAuthWritten)

\* C5 as stated: PLAIN whenever PLAIN is advertised, LOGIN only when LOGIN is
\* advertised and PLAIN is not, and whenever neither is advertised the 'not
\* supported' error naming the advertised set, with no AUTH command written.
C5_MechanismChoiceAsStated == [][C5_OriginalStep]_vars

\* C5 amended: the 'not supported' error, naming the advertised set, is raised
\* when at least one mechanism is advertised and neither PLAIN nor LOGIN is among
\* them; when no mechanism is advertised at all login raises 'no auth methods'.
C5_MechanismChoice == [][C5_AmendedStep]_vars

\* only CRAM is advertised and login refuses it by name
C5_Witness ==
    /\ pc = "returned" /\ call.op = "login"
    /\ err = [kind |-> "AuthNotSupported", info |-> <<wCRAM>>]
    /\ Cmds(sent) = <<"EHLO">>

LoginPcs == {"login_ehlo", "auth_plain", "auth_login", "login_user", "login_pass"}

C6_Step ==
    /\ (pc \in {"auth_plain", "login_pass"} /\ err'.kind \notin CmdErrors) =>
        /\ code' \in {235, 503} <=> (pc' = "returned" /\ err'.kind = "none")
        /\ code' \notin {235, 503} => LoginRaised("AuthFailed")
        /\ (call.op = "login" /\ err'.kind = "none") => ret' = Reply(code', resp')
    /\ (pc \in LoginPcs /\ pc' = "returned" /\ err'.kind = "none") =>
        (pc \in {"auth_plain", "login_pass"} /\ code' \in {235, 503})

\* C6: login returns normally exactly when the last reply of the exchange it
\* chose has status 235 or 503, and then returns that reply; with any other
\* status it raises the auth error.
C6_LoginResult == [][C6_Step]_vars

\* AUTH LOGIN ended with 503 and login returned that reply
C6_Witness ==
    /\ pc = "returned" /\ call.op = "login" /\ err.kind = "none"
    /\ ret = Reply(503, <<wOK>>)
    /\ Last(sent).cmd = "PASSWORD"
ToPcs == {"to_mail", "to_rcpt", "to_data"}

RECURSIVE Repeat(_, _)
Repeat(q, n) == IF n <= 0 THEN <<>> ELSE q \o Repeat(q, n - 1)

RECURSIVE Select(_, _)
Select(q, tag) ==
    IF q = <<>> THEN <<>>
    ELSE IF Head(q)[1] = tag THEN <<Head(q)>> \o Select(Tail(q), tag)
    ELSE Select(Tail(q), tag)

\* the failures printed so far, one per failed attempt, and the backoff sleeps
Failures(l) == Select(l, "attempt failed")
Sleeps(l)   == Select(l, "sleep")

\* what one attempt writes when no recipient is accepted
RefusedAttempt(c) ==
    <<[cmd |-> "MAIL FROM", arg |-> <<c.mail_from>>]>>
    \o [k \in 1..Len(c.addrs) |-> [cmd |-> "RCPT TO", arg |-> <<c.addrs[k]>>]]

\* C7: a call of to with retries = r >= 1 that ends in an error after attempts
\* that all ended in 'all recipients refused' has made exactly r attempts, each
\* of them MAIL FROM and then RCPT TO for every address, has slept r-1 times,
\* has never written DATA and raises 'all recipients refused'.
C7_AllRefusedRetries ==
    (pc = "returned" /\ call.op = "to" /\ call.retries >= 1 /\ err.kind # "none"
        /\ \A k \in 1..Len(Failures(log)) :
              Failures(log)[k][2] = "AllRecipientsRefused") =>
        /\ err.kind = "AllRecipientsRefused"
        /\ Len(Failures(log)) = call.retries
        /\ Len(Sleeps(log)) = call.retries - 1
        /\ [k \in 1..Len(sent) |-> [cmd |-> sent[k].cmd, arg |-> sent[k].arg]]
              = Repeat(RefusedAttempt(call), call.retries)
        /\ ~InList("DATA", Cmds(sent))

\* two recipients, two attempts, every RCPT TO refused
C7_Witness ==
    /\ pc = "returned" /\ call.op = "to" /\ call.retries = 2
    /\ err.kind = "AllRecipientsRefused"
    /\ Cmds(sent) = <<"MAIL FROM", "RCPT TO", "RCPT TO", "MAIL FROM", "RCPT TO", "RCPT TO">>
    /\ Len(Failures(log)) = 2

\* what this step printed
NewLog == IF Len(log') > Len(log) THEN SubSeq(log', Len(log) + 1, Len(log')) ELSE <<>>

AttemptFailedWith(kind) == InList(<<"attempt failed", kind>>, NewLog)
AttemptFailed == Failures(NewLog) # <<>>
CmdFailed == \E kind \in CmdErrors : AttemptFailedWith(kind)

\* where the current attempt's printing starts: after the last backoff sleep
AttemptStart(l) ==
    IF Sleeps(l) = <<>> THEN 0
    ELSE CHOOSE k \in 1..Len(l) :
            l[k][1] = "sleep" /\ \A j \in (k + 1)..Len(l) : l[j][1] # "sleep"

\* the recipients printed as refused in the current attempt, this step included
RefusedInAttempt ==
    Cardinality({ k \in (AttemptStart(log) + 1)..Len(log') : log'[k][1] = "refused" })

C8_Step ==
    /\ (pc = "to_mail" /\ pc' = "to_rcpt") => (code' = 250 /\ ~AttemptFailed)
    /\ (pc' = "to_data" /\ pc # "to_data") =>
          (pc = "to_rcpt" /\ ~AttemptFailed /\ RefusedInAttempt < Len(call.addrs))
    /\ pc = "to_data" => Wrote("DATA")
    /\ (Len(sent') > Len(sent) /\ Last(sent').cmd = "DATA") => pc = "to_data"
    /\ (pc = "to_rcpt" /\ call.i = Len(call.addrs) /\ ~CmdFailed) =>
          IF RefusedInAttempt < Len(call.addrs)
          THEN pc' = "to_data" /\ ~AttemptFailed
          ELSE pc' # "to_data" /\ AttemptFailedWith("AllRecipientsRefused")
    /\ (pc = "to_mail" /\ ~CmdFailed /\ code' = 250 /\ call.addrs = <<>>) =>
          (pc' # "to_data" /\ AttemptFailedWith("AllRecipientsRefused"))

\* C8: within an attempt DATA is written only after MAIL FROM was answered 250
\* and at least one recipient was accepted; once every recipient has been
\* answered, DATA follows if at least one was accepted (the refused ones do not
\* raise), and otherwise, also with no recipient at all, the attempt fails with
\* 'all recipients refused' and DATA is not written.
C8_DataIffAccepted == [][C8_Step]_vars

\* the first of two recipients refused, the second accepted, DATA answered 354
C8_Witness ==
    /\ pc = "returned" /\ call.op = "to" /\ err.kind = "none"
    /\ ret.has /\ ret.code = 354
    /\ log = <<<<"refused", "rcpt1">>>>
    /\ Cmds(sent) = <<"MAIL FROM", "RCPT TO", "RCPT TO", "DATA">>

Closes(events) == Cardinality({ k \in 1..Len(events) : events[k].op = "close" })

C9_Step ==
    /\ (pc = "ready" /\ Len(sent') > Len(sent) /\ Last(sent').cmd = "QUIT") =>
        /\ pc' = "closed"
        /\ err'.kind = "none"
        /\ closed' = closed + 1
        /\ Closes(io') = 1
        /\ Last(io') = [op |-> "close", stream |-> sock]
    /\ pc = "closed" => FALSE

\* C9: every quit, whether QUIT is answered, answered with a malformed line or
\* not answered at all, raises nothing and calls close on the session's stream
\* exactly once, as its last stream call; nothing happens on the session after.
C9_QuitClosesOnce == [][C9_Step]_vars

\* QUIT got no response, after an earlier operation on the session
C9_Witness ==
    /\ pc = "closed" /\ closed = 1 /\ ops >= 1
    /\ log = <<<<"QUIT failed", "NoResponse">>>>
    /\ Closes(io) = 1

\* the first line waiting is a reply line with status 220
GreetingIs220(buf) ==
    /\ buf # <<>>
    /\ ThreeDigits(Head(buf))
    /\ DigitsVal(Take(Head(buf), 3), 0) = 220

C10_Step ==
    /\ pc # "failed"
    /\ call.op = "init" =>
        /\ pc' = "failed" <=> err'.kind # "none"
        /\ pc' = "failed" => Len(sent') <= Len(sent) + 1
        /\ (pc = "greeting" /\ pc' # "failed") => GreetingIs220(inbuf)
        /\ (pc \in {"ehlo1", "ehlo2", "login_ehlo"} /\ pc' # "failed") => code' = 250
        /\ (pc = "starttls" /\ pc' # "failed") => code' = 220
        /\ (pc \in {"auth_login", "login_user"} /\ pc' # "failed") => code' = 334
        /\ (pc \in {"auth_plain", "login_pass"} /\ pc' # "failed") => code' \in {235, 503}
        /\ pc' = "returned" =>
              IF call.user # None /\ call.pass # None
              THEN pc \in {"auth_plain", "login_pass"}
              ELSE pc \in {"ehlo1", "ehlo2"}

\* C10: each step of the bootstrap either fails the construction with an error
\* or has read the status it requires (greeting 220, EHLO 250, STARTTLS 220,
\* EHLO 250, the login's statuses); the constructor returns only after the last
\* required step, and after a failure nothing more is written or done.
C10_BootstrapAllOrNothing == [][C10_Step]_vars

\* the EHLO after the STARTTLS upgrade was refused
C10_Witness ==
    /\ pc = "failed" /\ err.kind = "EhloAfterStartTlsFailed" /\ sock = "secured"
    /\ Cmds(sent) = <<"EHLO", "STARTTLS", "EHLO">>

-----------------------------------------------------------------------------
(* Properties of send                                                      *)

RECURSIVE Concat(_)
Concat(q) == IF q = <<>> THEN "" ELSE Head(q) \o Concat(Tail(q))

\* the bytes the running operation has put on the stream by write calls
StreamOf(events) == Concat([k \in 1..Len(events) |-> events[k].arg[1]])

Preamble == "MIME-Version: 1.0\r\n" \o "Content-Type: text/plain; charset=UTF-8\r\n"

\* the readline calls among stream calls
Reads(events) == { k \in 1..Len(events) : events[k].op = "readline" }

\* C11 as stated: send puts on the stream the two preamble lines (with mime
\* only), then the content, then CRLF "." CRLF and nothing else; it reads one
\* line, and returns the status and the text of a final reply line "CCC text".
C11_SendAsStated ==
    (pc = "returned" /\ call.op = "send") =>
        /\ StreamOf(sent)
              = (IF call.mime THEN Preamble ELSE "") \o call.content \o "\r\n.\r\n"
        /\ Cardinality(Reads(io)) = 1
        /\ LET line == Last(io).line IN
           (IsFinalLine(line) /\ Len(LineStr(line)) >= 4) =>
              /\ err.kind = "none"
              /\ ret = Reply(DigitsVal(Take(line, 3), 0), Drop(LineStr(line), 4))

-----------------------------------------------------------------------------
(* Request and reply                                                       *)

\* a command, as opposed to the message bytes write and send put on the stream
IsCommand(e) == e.cmd # "write"

C12_Step ==
    (\E k \in 1..Len(NewWrites) : IsCommand(NewWrites[k])) => inbuf = <<>>

\* C12 as stated: whenever the client writes a command, no line the server sent
\* earlier (of the greeting or of the reply to a preceding command or message)
\* is still unread, so the reply it then reads is the answer to that command.
C12_OneInFlight == [][C12_Step]_vars

-----------------------------------------------------------------------------
(* Status codes                                                            *)

\* a raw line that starts with three digits forming a status code
WellCoded(line) ==
    ThreeDigits(line) /\ DigitsVal(Take(line, 3), 0) \in 100..599

\* C13 as stated: a reply cmd returns has a status in 100..599, and a reply with
\* a line that does not start with three digits forming such a status is
\* rejected with the malformed-response error.
C13_StatusCodeRange ==
    p_out # Unparsed =>
        /\ p_out.err = "none" => p_out.code \in 100..599
        /\ (\E k \in 1..p_out.nread : k <= Len(p_in) /\ ~WellCoded(p_in[k]))
              => p_out.err \in {"InvalidLine", "InvalidCode"}

-----------------------------------------------------------------------------
(* The default sender                                                      *)

\* C14 as stated: in a call of to without mail_from, the sender of every MAIL
\* FROM is a username with which a login on this session has succeeded.
C14_SenderAuthenticated ==
    (call.op = "to" /\ call.from_default) =>
        \A k \in 1..Len(sent) :
            sent[k].cmd = "MAIL FROM" => sent[k].arg[1] \in authed

-----------------------------------------------------------------------------
(* umailesp32.py: cmd on a stream of bytes                                 *)
(* The unread bytes are one sequence of characters. A read that finds the  *)
(* stream empty waits; the wait ends with the timeout set on the socket    *)
(* (the read raises OSError) or with the peer closing (the read returns    *)
(* what there is, possibly nothing).                                       *)

ReadOutcomes == {"timeout", "eof"}

RECURSIVE Flatten(_)
Flatten(ls) == IF ls = <<>> THEN <<>> ELSE Head(ls) \o Flatten(Tail(ls))

\* number of bytes readline takes: through the first LF, or all there is
LineLen(buf) ==
    IF \E i \in 1..Len(buf) : buf[i] = "\n"
    THEN CHOOSE i \in 1..Len(buf) : buf[i] = "\n" /\ \A j \in 1..(i - 1) : buf[j] # "\n"
    ELSE Len(buf)

\* readline found no LF and has to wait for more bytes
LineStarved(buf) == \A i \in 1..Len(buf) : buf[i] # "\n"

\* `while sock.read(1) == b'-': resp += ' ' + sock.readline().strip().decode()`
RECURSIVE Cmd32Loop(_, _, _, _, _)
Cmd32Loop(buf, c, text, n, on_empty) ==
    IF buf = <<>>
    THEN [err |-> IF on_empty = "timeout" THEN "OSError" ELSE "none",
          code |-> IF on_empty = "timeout" THEN NoCode ELSE c,
          lines |-> <<text>>, rest |-> <<>>, nread |-> n + 1]
    ELSE IF Head(buf) # "-"
    THEN [err |-> "none", code |-> c, lines |-> <<text>>, rest |-> Tail(buf),
          nread |-> n + 1]
    ELSE IF LineStarved(Tail(buf)) /\ on_empty = "timeout"
    THEN [err |-> "OSError", code |-> NoCode, lines |-> <<text>>, rest |-> <<>>,
          nread |-> n + 2]
    ELSE LET k == LineLen(Tail(buf)) IN
         Cmd32Loop(Drop(Tail(buf), k),
                   c, text \o <<" ">> \o Strip(Take(Tail(buf), k), Whitespace),
                   n + 2, on_empty)

\* umailesp32.SMTP.cmd after its write: read(3), int, readline, then the loop
cmd32(buf, on_empty) ==
    LET head3 == Take(buf, 3)
        tail3 == Drop(buf, 3)
        raise(kind, rest, n) ==
            [err |-> kind, code |-> NoCode, lines |-> <<>>, rest |-> rest, nread |-> n]
    IN  IF Len(buf) < 3 /\ on_empty = "timeout" THEN raise("OSError", <<>>, 1)
        ELSE IF head3 = <<>> THEN raise("NoResponse", <<>>, 1)
        ELSE IF PyInt(head3) = ValueError THEN raise("ValueError", tail3, 1)
        ELSE IF LineStarved(tail3) /\ on_empty = "timeout" THEN raise("OSError", <<>>, 2)
        ELSE LET k == LineLen(tail3) IN
             Cmd32Loop(Drop(tail3, k), PyInt(head3),
                       Strip(Take(tail3, k), Whitespace), 2, on_empty)

Parse32Texts == {wOK, wSTARTTLS}

Parse32ContLines  == { Ln(c, "-", t) : c \in ParseCodes, t \in Parse32Texts }
Parse32FinalLines ==
    { Ln(c, " ", t) : c \in ParseCodes, t \in Parse32Texts }
    \cup { c \o CRLF : c \in ParseCodes }

\* complete replies of up to two continuation lines and a final line
Parse32Replies ==
    { <<f>> : f \in Parse32FinalLines }
    \cup { <<c1, f>> : c1 \in Parse32ContLines, f \in Parse32FinalLines }
    \cup { <<c1, c2, f>> : c1 \in Parse32ContLines, c2 \in Parse32ContLines,
                           f \in Parse32FinalLines }

\* what is on the stream behind the reply: nothing, or the next reply
Parse32After == { <<>>, <<Ln(c354, " ", wOK)>> }

Parse32Init ==
    /\ pc = "parse"
    /\ sock = "plain"
    /\ username = None
    /\ inbuf = <<>>
    /\ code = NoCode
    /\ resp = <<>>
    /\ sent = <<>>
    /\ io = <<>>
    /\ closed = 0
    /\ err = NoError
    /\ ret = NoReply
    /\ call = Idle
    /\ log = <<>>
    /\ ops = 0
    /\ authed = {}
    /\ p_in \in [reply : Parse32Replies, after : Parse32After]
    /\ p_out = Unparsed

\* cmd reads the reply off the stream
Parse32 ==
    /\ p_out = Unparsed
    /\ \E on_empty \in ReadOutcomes :
        p_out' = cmd32(Flatten(p_in.reply) \o Flatten(p_in.after), on_empty)
    /\ UNCHANGED <<p_in, sessionVars>>

Parse32Next == Parse32

SpecParse32 == Parse32Init /\ [][Parse32Next]_vars

\* C20 as stated: for a complete reply, followed on the stream by nothing or by
\* more bytes, cmd returns the status of the reply's final line without
\* failing on a wait, and leaves unread exactly the bytes behind the reply.
C20_ConsumesOneReply ==
    p_out # Unparsed =>
        /\ p_out.err = "none"
        /\ p_out.code = DigitsVal(Take(Last(p_in.reply), 3), 0)
        /\ p_out.rest = Flatten(p_in.after)

-----------------------------------------------------------------------------
(* umailesp32.py: SMTP.__init__ and the login it calls                     *)

\* `if ssl:` and `not ssl` in __init__: the name ssl is bound by the statement
\* `import ssl` at the top of the function, so what is tested is the module
\* object, which is true, and not the argument the caller passed
SslIsTrue(ssl_arg) == TRUE

\* the read calls of one cmd(), after its write
Cmd32Io(res) == <<IoWrite>> \o [k \in 1..res.nread |-> [op |-> "read", stream |-> sock]]

\* the state after connect(): the greeting is what the server sends first
Init32 ==
    \E ssl_arg \in BOOLEAN, u \in Users \cup {None}, p \in Passwords \cup {None},
       g \in Greetings :
        /\ pc = "wrap32"
        /\ sock = "plain"
        /\ username = u
        /\ inbuf = Flatten(g)
        /\ code = NoCode
        /\ resp = <<>>
        /\ sent = <<>>
        /\ io = <<>>
        /\ closed = 0
        /\ err = NoError
        /\ ret = NoReply
        /\ call = [Idle EXCEPT !.op = "init", !.use_ssl = ssl_arg, !.user = u, !.pass = p]
        /\ log = <<>>
        /\ ops = 0
        /\ authed = {}
        /\ p_in = <<>>
        /\ p_out = Unparsed

\* `if ssl: sock = ssl.wrap_socket(sock)`; the handshake may fail
Init32Wrap ==
    /\ pc = "wrap32"
    /\ IF SslIsTrue(call.use_ssl)
       THEN \E wrap_ok \in BOOLEAN :
               /\ io' = <<[op |-> "wrap", stream |-> sock]>>
               /\ IF wrap_ok
                  THEN sock' = "secured" /\ pc' = "greeting32" /\ UNCHANGED err
                  ELSE UNCHANGED sock /\ pc' = "failed" /\ err' = Error("WrapFailed")
       ELSE /\ io' = <<>>
            /\ pc' = "greeting32"
            /\ UNCHANGED <<sock, err>>
    /\ UNCHANGED <<username, inbuf, code, resp, sent, closed, ret, call, log, ops, authed,
                   parserVars>>

\* `code = int(sock.read(3))`, `sock.readline()`, `if code != 220`
Init32Greeting ==
    /\ pc = "greeting32"
    /\ \E on_empty \in ReadOutcomes :
        LET head3 == Take(inbuf, 3)
            tail3 == Drop(inbuf, 3)
            c     == PyInt(head3)
        IN  IF Len(inbuf) < 3 /\ on_empty = "timeout"
            THEN /\ InitRaise("OSError")
                 /\ io' = <<[op |-> "read", stream |-> sock]>>
                 /\ UNCHANGED <<inbuf, code>>
            ELSE IF c = ValueError
            THEN /\ InitRaise("ValueError")
                 /\ io' = <<[op |-> "read", stream |-> sock]>>
                 /\ inbuf' = tail3
                 /\ UNCHANGED code
            ELSE IF LineStarved(tail3) /\ on_empty = "timeout"
            THEN /\ InitRaise("OSError")
                 /\ io' = <<[op |-> "read", stream |-> sock], IoRead>>
                 /\ inbuf' = <<>>
                 /\ code' = c
            ELSE /\ io' = <<[op |-> "read", stream |-> sock], IoRead>>
                 /\ inbuf' = Drop(tail3, LineLen(tail3))
                 /\ code' = c
                 /\ IF c # 220
                    THEN InitRaise("ConnectFailed")
                    ELSE pc' = "ehlo32" /\ UNCHANGED <<err, username, call>>
    /\ UNCHANGED <<sock, resp, sent, closed, ret, log, ops, authed, parserVars>>

\* `if username and password: self.login(username, password)`, else return
Init32LoginOrReturn ==
    IF call.user # None /\ call.pass # None
    THEN /\ pc' = "login32_ehlo"
         /\ username' = call.user
         /\ UNCHANGED <<err, call>>
    ELSE /\ pc' = "returned"
         /\ UNCHANGED <<err, username, call>>

\* `if not ssl and CMD_STARTTLS in resp:` STARTTLS, 220 required, then the wrap,
\* which may fail; `ehlo` is what cmd made of the EHLO reply
Init32StartTls(ehlo) ==
    \E r \in ServerReplies("STARTTLS"), on_empty \in ReadOutcomes, wrap_ok \in BOOLEAN :
        \E res \in {cmd32(ehlo.rest \o Flatten(r), on_empty)} :
        /\ inbuf' = res.rest
        /\ sent' = sent \o <<Written("EHLO", <<LOCAL_DOMAIN>>), Written("STARTTLS", <<>>)>>
        /\ code' = IF res.err = "none" THEN res.code ELSE ehlo.code
        /\ resp' = IF res.err = "none" THEN res.lines ELSE ehlo.lines
        /\ IF res.err # "none"
           THEN /\ InitRaise(res.err)
                /\ io' = Cmd32Io(ehlo) \o Cmd32Io(res)
                /\ UNCHANGED sock
           ELSE IF res.code # 220
           THEN /\ InitRaise("StartTlsFailed")
                /\ io' = Cmd32Io(ehlo) \o Cmd32Io(res)
                /\ UNCHANGED sock
           ELSE /\ io' = Cmd32Io(ehlo) \o Cmd32Io(res) \o <<[op |-> "wrap", stream |-> sock]>>
                /\ IF wrap_ok
                   THEN sock' = "secured" /\ Init32LoginOrReturn
                   ELSE UNCHANGED sock /\ InitRaise("WrapFailed")

\* EHLO, 250 required, then the STARTTLS decision and the login
Init32Ehlo ==
    /\ pc = "ehlo32"
    /\ \E r \in ServerReplies("EHLO"), on_empty \in ReadOutcomes :
        \E res \in {cmd32(inbuf \o Flatten(r), on_empty)} :
        IF res.err = "none" /\ res.code = 250
              /\ ~SslIsTrue(call.use_ssl) /\ InList(CMD_STARTTLS, res.lines)
        THEN Init32StartTls(res)
        ELSE /\ CmdEffects("EHLO", <<LOCAL_DOMAIN>>, res)
             /\ io' = Cmd32Io(res)
             /\ UNCHANGED sock
             /\ IF res.err # "none" THEN InitRaise(res.err)
                ELSE IF res.code # 250 THEN InitRaise("EhloFailed")
                ELSE Init32LoginOrReturn
    /\ UNCHANGED <<closed, ret, log, ops, authed, parserVars>>

\* login: EHLO, the scan for AUTH and the choice of the mechanism
Login32Ehlo ==
    /\ pc = "login32_ehlo"
    /\ \E r \in ServerReplies("EHLO"), on_empty \in ReadOutcomes :
        \E res \in {cmd32(inbuf \o Flatten(r), on_empty)} :
        LET auths == AuthsOf(res.lines, <<>>) IN
        /\ CmdEffects("EHLO", <<LOCAL_DOMAIN>>, res)
        /\ io' = Cmd32Io(res)
        /\ IF res.err # "none" THEN LoginRaise(res.err, <<>>)
           ELSE IF res.code # 250 THEN LoginRaise("EhloFailed", <<>>)
           ELSE IF auths = <<>> THEN LoginRaise("NoAuthMethods", <<>>)
           ELSE IF ChooseAuth(auths) = "PLAIN"
           THEN pc' = "auth32_plain" /\ UNCHANGED <<err, ret>>
           ELSE IF ChooseAuth(auths) = "LOGIN"
           THEN pc' = "auth32_login" /\ UNCHANGED <<err, ret>>
           ELSE LoginRaise("AuthNotSupported", auths)
    /\ UNCHANGED <<sock, username, closed, call, log, ops, authed, parserVars>>

\* login: AUTH PLAIN with the credentials, and the final check
Login32Plain ==
    /\ pc = "auth32_plain"
    /\ \E r \in ServerReplies("AUTH"), on_empty \in ReadOutcomes :
        \E res \in {cmd32(inbuf \o Flatten(r), on_empty)} :
        /\ CmdEffects("AUTH PLAIN", B64(<<"\\0", call.user, "\\0", call.pass>>), res)
        /\ io' = Cmd32Io(res)
        /\ LoginFinish(res)
    /\ UNCHANGED <<sock, username, closed, call, log, ops, parserVars>>

\* login: AUTH LOGIN with the username on the same line, 334 required
Login32AuthLogin ==
    /\ pc = "auth32_login"
    /\ \E r \in ServerReplies("AUTH"), on_empty \in ReadOutcomes :
        \E res \in {cmd32(inbuf \o Flatten(r), on_empty)} :
        /\ CmdEffects("AUTH LOGIN", B64(<<call.user>>), res)
        /\ io' = Cmd32Io(res)
        /\ IF res.err # "none" THEN LoginRaise(res.err, <<>>)
           ELSE IF res.code # 334 THEN LoginRaise("UsernameFailed", <<>>)
           ELSE pc' = "login32_pass" /\ UNCHANGED <<err, ret>>
    /\ UNCHANGED <<sock, username, closed, call, log, ops, authed, parserVars>>

\* login: the password, base64, and the final check
Login32Pass ==
    /\ pc = "login32_pass"
    /\ \E r \in ServerReplies("AUTH"), on_empty \in ReadOutcomes :
        \E res \in {cmd32(inbuf \o Flatten(r), on_empty)} :
        /\ CmdEffects("PASSWORD", B64(<<call.pass>>), res)
        /\ io' = Cmd32Io(res)
        /\ LoginFinish(res)
    /\ UNCHANGED <<sock, username, closed, call, log, ops, parserVars>>

Next32 ==
    \/ Init32Wrap
    \/ Init32Greeting
    \/ Init32Ehlo
    \/ Login32Ehlo
    \/ Login32Plain
    \/ Login32AuthLogin
    \/ Login32Pass

Spec32 == Init32 /\ [][Next32]_vars

Wraps(events) == { k \in 1..Len(events) : events[k].op = "wrap" }

C15_Step ==
    /\ (pc = "wrap32" /\ call.use_ssl) =>
          (Wraps(io') = {1} /\ (pc' # "failed" => sock' = "secured"))
    /\ (pc = "wrap32" /\ ~call.use_ssl) =>
          (Wraps(io') = {} /\ sock' = "plain")
    /\ (pc \in {"greeting32", "ehlo32"} /\ call.use_ssl) =>
          (sock = "secured" /\ AllOn(io', "secured") /\ AllOn(NewWrites, "secured"))
    /\ (pc = "greeting32" /\ ~call.use_ssl) => AllOn(io', "plain")
    /\ (pc = "ehlo32" /\ ~call.use_ssl) =>
          /\ NewWrites # <<>> /\ NewWrites[1].cmd = "EHLO" /\ NewWrites[1].stream = "plain"
          /\ (\E k \in 1..Len(NewWrites) : NewWrites[k].cmd = "STARTTLS")
                => InList(CMD_STARTTLS, resp')
          /\ Wraps(io') # {} => \E k \in 1..Len(NewWrites) : NewWrites[k].cmd = "STARTTLS"

\* C15 as stated: with ssl=True the socket is wrapped before anything is read
\* or written and the greeting and EHLO go over the wrapped stream; with
\* ssl=False nothing is wrapped at connect, the greeting and the first EHLO go
\* over the plain socket, and STARTTLS (with the wrap that follows it) is
\* attempted only when the EHLO reply advertises it.
C15_SecurityFollowsArgument == [][C15_Step]_vars

-----------------------------------------------------------------------------
(* The retry loop of to                                                    *)

IsPrefix(p, q) == Len(p) <= Len(q) /\ SubSeq(q, 1, Len(p)) = p

\* what one attempt writes when it gets as far as DATA
FullAttempt(c) == RefusedAttempt(c) \o <<[cmd |-> "DATA", arg |-> <<>>]>>

\* the positions in the record of writes where an attempt starts
AttemptStarts(q) == { k \in 1..Len(q) : q[k].cmd = "MAIL FROM" }

\* the writes of the attempt that starts at position k, without the stream
AttemptAt(q, k) ==
    LET later == { j \in AttemptStarts(q) : j > k }
        last  == IF later = {} THEN Len(q)
                 ELSE (CHOOSE j \in later : \A i \in later : j <= i) - 1
    IN  [n \in 1..(last - k + 1) |-> [cmd |-> q[k + n - 1].cmd, arg |-> q[k + n - 1].arg]]

C16_Shape ==
    (call.op = "to" /\ call.retries >= 1) =>
        /\ Cardinality(AttemptStarts(sent)) <= call.retries
        /\ call.attempt < call.retries
        /\ Cardinality(AttemptStarts(sent))
              = IF pc = "to_mail" THEN call.attempt ELSE call.attempt + 1
        /\ sent # <<>> => 1 \in AttemptStarts(sent)
        /\ \A k \in AttemptStarts(sent) :
              /\ IsPrefix(AttemptAt(sent, k), FullAttempt(call))
              /\ AttemptAt(sent, k)[1].arg = <<call.mail_from>>

C16_Step ==
    (pc \in ToPcs /\ call.retries >= 1) =>
        /\ (pc = "to_data" /\ ~CmdFailed /\ code' = 354) =>
              /\ pc' = "returned" /\ err'.kind = "none"
              /\ ret' = Reply(354, resp')
              /\ ~AttemptFailed
        /\ (pc' = "returned" /\ err'.kind = "none") =>
              (pc = "to_data" /\ code' = 354 /\ ~AttemptFailed)
        /\ ~AttemptFailed =>
              (err'.kind = "none" /\ call'.attempt = call.attempt /\ Sleeps(NewLog) = <<>>)
        /\ AttemptFailed =>
              /\ Len(Failures(NewLog)) = 1
              /\ IF call.attempt + 1 < call.retries
                 THEN /\ Last(NewLog) = <<"sleep", "5">>
                      /\ Len(Sleeps(NewLog)) = 1
                      /\ pc' = "to_mail"
                      /\ call'.attempt = call.attempt + 1
                      /\ err'.kind = "none"
                 ELSE /\ Sleeps(NewLog) = <<>>
                      /\ pc' = "returned"
                      /\ err'.kind = Failures(NewLog)[1][2]
                      /\ ret' = NoReply
        /\ pc = "to_mail" => Wrote("MAIL FROM")

\* C16: a call of to with retries = r >= 1 makes at most r attempts; each
\* attempt writes MAIL FROM first and then RCPT TO for the addresses from the
\* first one on, all of them before DATA, whatever earlier attempts did; to
\* returns in the step in which DATA is answered 354, and only then; a failed
\* attempt is followed by the backoff sleep and a new attempt, except the r-th,
\* whose error is raised to the caller without a sleep.
C16_BoundedRetry == [][C16_Step]_vars /\ []C16_Shape

\* the first attempt fails on RCPT TO, the second one gets DATA answered 354
C16_Witness ==
    /\ pc = "returned" /\ call.op = "to" /\ call.retries = 2 /\ err.kind = "none"
    /\ ret.has /\ ret.code = 354
    /\ Cmds(sent) = <<"MAIL FROM", "RCPT TO", "RCPT TO", "MAIL FROM", "RCPT TO", "RCPT TO", "DATA">>
    /\ Len(Failures(log)) = 1 /\ Len(Sleeps(log)) = 1

-----------------------------------------------------------------------------
(* The LOGIN exchange                                                      *)

\* login has ended with an exception in this step
LoginFailedHere ==
    /\ err'.kind # "none"
    /\ pc' = IF call.op = "init" THEN "failed" ELSE "returned"

C17_Step ==
    /\ pc = "auth_login" =>
          /\ Wrote("AUTH LOGIN") /\ Last(sent').arg = <<>>
          /\ pc' = "login_user" <=> (err'.kind = "none" /\ code' = 334)
          /\ pc' # "login_user" => LoginFailedHere
    /\ pc = "login_user" =>
          /\ code = 334 /\ Last(sent).cmd = "AUTH LOGIN"
          /\ Wrote("USERNAME") /\ Last(sent').arg = B64(<<call.user>>)
          /\ pc' = "login_pass" <=> (err'.kind = "none" /\ code' = 334)
          /\ pc' # "login_pass" => LoginFailedHere
    /\ pc = "login_pass" =>
          /\ code = 334 /\ Last(sent).cmd = "USERNAME"
          /\ Wrote("PASSWORD") /\ Last(sent').arg = B64(<<call.pass>>)
    /\ \A k \in 1..Len(NewWrites) :
          /\ NewWrites[k].cmd = "USERNAME" => pc = "login_user"
          /\ NewWrites[k].cmd = "PASSWORD" => pc = "login_pass"

\* C17: on the LOGIN path AUTH LOGIN is written without credentials; the
\* username is written only in the step after a 334 reply to AUTH LOGIN and
\* the password only in the step after a 334 reply to the username; after any
\* other interim reply login raises at once and writes nothing more.
C17_LoginExchange == [][C17_Step]_vars

\* the whole exchange, accepted with 235
C17_Witness ==
    /\ pc = "returned" /\ call.op = "login" /\ err.kind = "none"
    /\ ret.has /\ ret.code = 235
    /\ Cmds(sent) = <<"EHLO", "AUTH LOGIN", "USERNAME", "PASSWORD">>

-----------------------------------------------------------------------------
(* The EHLO of login                                                       *)

\* no line of the feature list is an AUTH feature
NoAuthFeature(features) ==
    \A k \in 1..Len(features) : Upper(Take(features[k], 4)) # wAUTH

C18_Step ==
    /\ (pc = "ready" /\ call'.op = "login") => (pc' = "login_ehlo" /\ NewWrites = <<>>)
    /\ pc = "login_ehlo" =>
          /\ Wrote("EHLO")
          /\ (err'.kind \notin CmdErrors /\ code' # 250) =>
                (LoginRaised("EhloFailed") /\ NoAuthWritten)
          /\ err'.kind \in CmdErrors => (LoginFailedHere /\ NoAuthWritten)
          /\ (LoginEhloAnswered /\ NoAuthFeature(resp')) =>
                (LoginRaised("NoAuthMethods") /\ NoAuthWritten)
          /\ pc' = "auth_plain" => (LoginEhloAnswered /\ wPLAIN \in AdvertisedSet(resp'))
          /\ pc' = "auth_login" =>
                (LoginEhloAnswered /\ wLOGIN \in AdvertisedSet(resp')
                    /\ wPLAIN \notin AdvertisedSet(resp'))
    /\ (pc' \in {"auth_plain", "auth_login"} /\ pc' # pc) => pc = "login_ehlo"
    /\ (\E k \in 1..Len(NewWrites) : IsAuthWrite(NewWrites[k])) =>
          /\ pc \in {"auth_plain", "auth_login", "login_user", "login_pass"}
          /\ pc \in {"auth_plain", "auth_login"} => (Last(sent).cmd = "EHLO" /\ code = 250)

\* C18: every login starts with its own EHLO; the mechanism it goes for is one
\* the reply to that EHLO advertises, whatever an earlier EHLO of the bootstrap
\* listed; when that EHLO is not answered 250 (or not answered at all), or its
\* reply has no AUTH feature (then with the 'no auth methods' error), login
\* raises with no AUTH command and no credential written.
C18_LoginReissuesEhlo == [][C18_Step]_vars

\* the constructor's login finds no AUTH feature in the reply to its own EHLO
C18_Witness ==
    /\ pc = "failed" /\ call.op = "init" /\ err.kind = "NoAuthMethods"
    /\ Cmds(sent) = <<"EHLO", "EHLO">>
    /\ NoAuthFeature(resp)

-----------------------------------------------------------------------------
(* How to ends                                                             *)

\* C19 as stated: whatever retries is, a call of to ends either by returning
\* a reply with status 354, after MAIL FROM and with DATA the last command
\* it wrote, or by raising an error, and never both or neither.
C19_ReplyOrError ==
    (pc = "returned" /\ call.op = "to") =>
        IF err.kind = "none"
        THEN /\ ret.has /\ ret.code = 354
             /\ InList("MAIL FROM", Cmds(sent))
             /\ sent # <<>> /\ Last(sent).cmd = "DATA"
        ELSE ~ret.has
====
